---- MODULE Spec2Model ----
(***************************************************************************)
(* Model of apps/web/app/api/desktop/video/create/route.ts: the OPTIONS    *)
(* preflight handler and the GET handler that bridges a bearer token into  *)
(* a session cookie, resolves the user, inserts a video row, registers a   *)
(* short link in hosted production mode and answers with CORS headers.     *)
(*                                                                         *)
(* An async handler is atomic between two awaits, so GET is one action per *)
(* segment: up to `await getCurrentUser()`, up to `await db.insert()`, up  *)
(* to `await fetch()`, and the rest.  The outcomes of the awaited calls    *)
(* (the user, the insert result, the short-link result) are inputs.        *)
(***************************************************************************)
EXTENDS Integers, Sequences, FiniteSets, Bags, TLC

VARIABLES env, req, pc, jar, authCalls, user, id, insertArg, videos, nextId,
          fetchState, dubCalls, console, resp

vars == <<env, req, pc, jar, authCalls, user, id, insertArg, videos, nextId,
          fetchState, dubCalls, console, resp>>

(* ------------------------------ bounds --------------------------------- *)

\* number of request slots that may be in flight together (ConcSpec)
NumRequests == 2

Slots == 1..NumRequests

(* ------------------------- JavaScript values --------------------------- *)

\* an unset process.env entry, and the null of `params.get(..) || null`
Undefined == "<undefined>"
Null == "<null>"
\* searchParams.get("origin") when the query has no origin parameter
AbsentParam == "<absent>"

NoUser == [userId |-> "<null>"]
NoId == 0
EmptyBody == [empty |-> TRUE]
NoRow == [id |-> 0]
NoReq == [method |-> "<none>"]
NoResp == [status |-> 0]

(* ------------------------------ strings -------------------------------- *)
\* header values are sequences of characters so that split(" ") is computed

SP == " "
Str_Bearer == <<"B", "e", "a", "r", "e", "r">>
Str_Basic == <<"B", "a", "s", "i", "c">>
Str_abc == <<"a", "b", "c">>
Str_xyz == <<"x", "y", "z">>

\* req.headers.get("authorization"): null when the header is missing
NoHeader == [present |-> FALSE, value |-> <<>>]
Hdr(s) == [present |-> TRUE, value |-> s]

AuthHeaders ==
  { NoHeader,
    Hdr(<<>>),
    Hdr(Str_Bearer),
    Hdr(Str_abc),
    Hdr(Str_Bearer \o <<SP>> \o Str_abc),
    Hdr(Str_Bearer \o <<SP>> \o Str_xyz),
    Hdr(Str_Bearer \o <<SP, SP>> \o Str_abc),
    Hdr(Str_Bearer \o <<SP>> \o Str_abc \o <<SP>> \o Str_xyz),
    Hdr(Str_Basic \o <<SP>> \o Str_abc) }

ConcAuthHeaders == { NoHeader, Hdr(Str_Bearer \o <<SP>> \o Str_abc) }

OriginParams ==
  { AbsentParam, "", "tauri://localhost", "https://cap.so",
    "https://evil.example" }
ConcOriginParams == { AbsentParam, "tauri://localhost" }

RequestOrigins ==
  { "https://cap.so", "http://localhost:3001", "http://localhost:3000" }
ConcRequestOrigins == { "https://cap.so" }

Users == { [userId |-> "u1"], [userId |-> "u2"] }

\* getDate(), getMonth(), getFullYear() of `new Date()`
Dates == { [day |-> 5, month |-> 10, year |-> 2026],
           [day |-> 31, month |-> 0, year |-> 2024] }
ConcDates == { [day |-> 5, month |-> 10, year |-> 2026] }

InsertOutcomes == { "ok", "error" }
FetchOutcomes == { "json", "non_json", "network_error" }
ConcFetchOutcomes == { "json", "network_error" }

Envs ==
  [ NEXT_PUBLIC_URL : { Undefined, "", "https://cap.so" },
    CAP_AWS_REGION : { Undefined, "us-east-1" },
    CAP_AWS_BUCKET : { Undefined, "b1" },
    NEXT_PUBLIC_IS_CAP : { Undefined, "", "true", "false" },
    NEXT_PUBLIC_ENVIRONMENT : { Undefined, "development", "production" },
    DUB_API_KEY : { "k1" } ]

ConcEnvs ==
  { e \in Envs : /\ e.NEXT_PUBLIC_URL = "https://cap.so"
                 /\ e.CAP_AWS_REGION = "us-east-1"
                 /\ e.CAP_AWS_BUCKET = "b1"
                 /\ e.NEXT_PUBLIC_IS_CAP = "true"
                 /\ e.NEXT_PUBLIC_ENVIRONMENT \in { "development", "production" } }

(* --------------------------- pure helpers ------------------------------ *)

\* JavaScript truthiness of a string-or-undefined/null value
Truthy(x) == x # Undefined /\ x # Null /\ x # AbsentParam /\ x # ""

\* String.prototype.split(" ")
RECURSIVE Split(_)
Split(s) ==
  IF \A i \in 1..Len(s) : s[i] # SP
  THEN <<s>>
  ELSE LET i == CHOOSE k \in 1..Len(s) :
                   s[k] = SP /\ \A j \in 1..(k - 1) : s[j] # SP
       IN <<SubSeq(s, 1, i - 1)>> \o Split(SubSeq(s, i + 1, Len(s)))

NoToken == [defined |-> FALSE, str |-> <<>>]

\* variant: takes the first field of the header instead of the second
ParseToken_FirstField(h) ==
  IF ~h.present THEN NoToken
  ELSE LET f == Split(h.value)
       IN IF Len(f) >= 1 THEN [defined |-> TRUE, str |-> f[1]] ELSE NoToken

\* req.headers.get("authorization")?.split(" ")[1]
ParseToken(h) ==
  IF ~h.present THEN NoToken
  ELSE LET f == Split(h.value)
       IN IF Len(f) >= 2 THEN [defined |-> TRUE, str |-> f[2]] ELSE NoToken

\* if (token)
TokenTruthy(t) == t.defined /\ t.str # <<>>

SessionCookie(t) ==
  [ name |-> "next-auth.session-token", value |-> t.str, path |-> "/",
    sameSite |-> "none", secure |-> TRUE, httpOnly |-> TRUE ]

allowedOrigins(e) ==
  << e.NEXT_PUBLIC_URL, "http://localhost:3001", "tauri://localhost",
     "http://tauri.localhost", "https://tauri.localhost" >>

\* Array.prototype.includes
Includes(list, x) == \E i \in 1..Len(list) : list[i] = x

\* params.get("origin") || null
OriginOrNull(p) == IF Truthy(p) THEN p ELSE Null

CorsHeaders(allowOrigin) ==
  [ AccessControlAllowOrigin |-> allowOrigin,
    AccessControlAllowCredentials |-> "true",
    AccessControlAllowMethods |-> "GET, OPTIONS",
    AccessControlAllowHeaders |-> "Authorization, sentry-trace, baggage" ]

\* variant: reflects the origin parameter without the allow-list test
OptionsHeaders_Reflect(e, p, originalOrigin) ==
  LET origin == OriginOrNull(p)
  IN CorsHeaders(IF origin # Null
                 THEN origin
                 ELSE IF Includes(allowedOrigins(e), originalOrigin)
                      THEN originalOrigin
                      ELSE "null")

\* the three copies of the header block, one per response path
OptionsHeaders(e, p, originalOrigin) ==
  LET origin == OriginOrNull(p)
  IN CorsHeaders(IF origin # Null /\ Includes(allowedOrigins(e), origin)
                 THEN origin
                 ELSE IF Includes(allowedOrigins(e), originalOrigin)
                      THEN originalOrigin
                      ELSE "null")

\* variant: this copy lost the fall-back to the request origin
UnauthorizedHeaders_Drift(e, p, originalOrigin) ==
  LET origin == OriginOrNull(p)
  IN CorsHeaders(IF origin # Null /\ Includes(allowedOrigins(e), origin)
                 THEN origin
                 ELSE "null")

UnauthorizedHeaders(e, p, originalOrigin) ==
  LET origin == OriginOrNull(p)
  IN CorsHeaders(IF origin # Null /\ Includes(allowedOrigins(e), origin)
                 THEN origin
                 ELSE IF Includes(allowedOrigins(e), originalOrigin)
                      THEN originalOrigin
                      ELSE "null")

SuccessHeaders(e, p, originalOrigin) ==
  LET origin == OriginOrNull(p)
  IN CorsHeaders(IF origin # Null /\ Includes(allowedOrigins(e), origin)
                 THEN origin
                 ELSE IF Includes(allowedOrigins(e), originalOrigin)
                      THEN originalOrigin
                      ELSE "null")

\* date.toLocaleString("default", {month: "long"})
MonthName(m) ==
  << "January", "February", "March", "April", "May", "June", "July",
     "August", "September", "October", "November", "December" >>[m + 1]

FormattedDate(d) == << d.day, " ", MonthName(d.month), " ", d.year >>

\* variant: the row stores the bucket as region and the region as bucket
VideoValues_Swapped(e, newId, d, u) ==
  [ id |-> newId,
    name |-> << "My Cap Recording - " >> \o FormattedDate(d),
    ownerId |-> u.userId,
    awsRegion |-> e.CAP_AWS_BUCKET,
    awsBucket |-> e.CAP_AWS_REGION ]

\* the row handed to db.insert(videos).values(..)
VideoValues(e, newId, d, u) ==
  [ id |-> newId,
    name |-> << "My Cap Recording - " >> \o FormattedDate(d),
    ownerId |-> u.userId,
    awsRegion |-> e.CAP_AWS_REGION,
    awsBucket |-> e.CAP_AWS_BUCKET ]

\* NEXT_PUBLIC_IS_CAP && NEXT_PUBLIC_ENVIRONMENT === "production"
IsCapProduction(e) ==
  Truthy(e.NEXT_PUBLIC_IS_CAP) /\ e.NEXT_PUBLIC_ENVIRONMENT = "production"

\* dubOptions together with the URL it is posted to
DubRequest(e, newId) ==
  [ endpoint |-> "https://api.dub.co/links?projectSlug=cap",
    method |-> "POST",
    authorization |-> << "Bearer ", e.DUB_API_KEY >>,
    url |-> << e.NEXT_PUBLIC_URL, "/s/", newId >>,
    key |-> newId ]

\* the JSON body of the 200 response
SuccessBody(e, newId, u) ==
  [ id |-> newId, user_id |-> u.userId,
    aws_region |-> e.CAP_AWS_REGION, aws_bucket |-> e.CAP_AWS_BUCKET ]

\* variant: the id is kept in a module-level variable shared by all requests
SuccessResponse_SharedId(e, r) ==
  [ status |-> 200,
    body |-> SuccessBody(e, nextId - 1, user[r]),
    headers |-> SuccessHeaders(e, req[r].originParam, req[r].origin) ]

SuccessResponse(e, r) ==
  [ status |-> 200,
    body |-> SuccessBody(e, id[r], user[r]),
    headers |-> SuccessHeaders(e, req[r].originParam, req[r].origin) ]

(* ------------------------------ state ---------------------------------- *)

InitWith(envs) ==
  /\ env \in envs
  /\ req = [r \in Slots |-> NoReq]
  /\ pc = [r \in Slots |-> "idle"]
  /\ jar = [r \in Slots |-> {}]
  /\ authCalls = [r \in Slots |-> 0]
  /\ user = [r \in Slots |-> NoUser]
  /\ id = [r \in Slots |-> NoId]
  /\ insertArg = [r \in Slots |-> NoRow]
  /\ videos = EmptyBag
  /\ nextId = 1
  /\ fetchState = [r \in Slots |-> "none"]
  /\ dubCalls = EmptyBag
  /\ console = [r \in Slots |-> <<>>]
  /\ resp = [r \in Slots |-> NoResp]

Init == InitWith(Envs)
ConcInit == InitWith(ConcEnvs)

(* ----------------------------- handlers -------------------------------- *)

\* nanoId(): an identifier that no earlier call has returned
nanoId == nextId

\* variant: the token bridge of GET pasted into the preflight handler
OPTIONS_WithBridge(r, h, p, o) ==
  /\ pc[r] = "idle"
  /\ req' = [req EXCEPT ![r] = [method |-> "OPTIONS", authorization |-> h,
                                originParam |-> p, origin |-> o]]
  /\ LET token == ParseToken(h)
     IN jar' = [jar EXCEPT ![r] = IF TokenTruthy(token)
                                  THEN {SessionCookie(token)} ELSE {}]
  /\ resp' = [resp EXCEPT ![r] = [status |-> 200, body |-> EmptyBody,
                                  headers |-> OptionsHeaders(env, p, o)]]
  /\ pc' = [pc EXCEPT ![r] = "done"]
  /\ UNCHANGED <<env, authCalls, user, id, insertArg, videos, nextId,
                 fetchState, dubCalls, console>>

\* export async function OPTIONS(req): no await, so one step
OPTIONS(r, h, p, o) ==
  /\ pc[r] = "idle"
  /\ req' = [req EXCEPT ![r] = [method |-> "OPTIONS", authorization |-> h,
                                originParam |-> p, origin |-> o]]
  /\ resp' = [resp EXCEPT ![r] = [status |-> 200, body |-> EmptyBody,
                                  headers |-> OptionsHeaders(env, p, o)]]
  /\ pc' = [pc EXCEPT ![r] = "done"]
  /\ UNCHANGED <<env, jar, authCalls, user, id, insertArg, videos, nextId,
                 fetchState, dubCalls, console>>

\* GET, up to the call of getCurrentUser()
GET_Start(r, h, p, o) ==
  /\ pc[r] = "idle"
  /\ req' = [req EXCEPT ![r] = [method |-> "GET", authorization |-> h,
                                originParam |-> p, origin |-> o]]
  /\ LET token == ParseToken(h)
     IN jar' = [jar EXCEPT ![r] = IF TokenTruthy(token)
                                  THEN {SessionCookie(token)} ELSE {}]
  /\ authCalls' = [authCalls EXCEPT ![r] = @ + 1]
  /\ pc' = [pc EXCEPT ![r] = "awaitUser"]
  /\ UNCHANGED <<env, user, id, insertArg, videos, nextId, fetchState,
                 dubCalls, console, resp>>

\* variant: the `if (!user)` early return is missing
GET_AfterUser_NoGuard(r, u, d) ==
  /\ pc[r] = "awaitUser"
  /\ user' = [user EXCEPT ![r] = u]
  /\ console' = [console EXCEPT ![r] = Append(@, [cookies |-> jar[r]])]
  /\ id' = [id EXCEPT ![r] = nanoId]
  /\ nextId' = nextId + 1
  /\ insertArg' = [insertArg EXCEPT ![r] = VideoValues(env, nanoId, d, u)]
  /\ pc' = [pc EXCEPT ![r] = "awaitInsert"]
  /\ UNCHANGED <<env, req, jar, authCalls, videos, fetchState, dubCalls, resp>>

\* GET, from the resolution of getCurrentUser() to the call of db.insert()
GET_AfterUser(r, u, d) ==
  /\ pc[r] = "awaitUser"
  /\ user' = [user EXCEPT ![r] = u]
  /\ console' = [console EXCEPT ![r] = Append(@, [cookies |-> jar[r]])]
  /\ IF u = NoUser
     THEN /\ resp' = [resp EXCEPT ![r] =
                        [status |-> 401, body |-> [error |-> TRUE],
                         headers |-> UnauthorizedHeaders(env, req[r].originParam,
                                                         req[r].origin)]]
          /\ pc' = [pc EXCEPT ![r] = "done"]
          /\ UNCHANGED <<id, nextId, insertArg>>
     ELSE /\ id' = [id EXCEPT ![r] = nanoId]
          /\ nextId' = nextId + 1
          /\ insertArg' = [insertArg EXCEPT ![r] = VideoValues(env, nanoId, d, u)]
          /\ pc' = [pc EXCEPT ![r] = "awaitInsert"]
          /\ UNCHANGED resp
  /\ UNCHANGED <<env, req, jar, authCalls, videos, fetchState, dubCalls>>

\* variant: fetch() is started without `await` and the response follows at once
GET_AfterInsert_FireAndForget(r, outcome) ==
  /\ pc[r] = "awaitInsert"
  /\ IF outcome = "error"
     THEN /\ pc' = [pc EXCEPT ![r] = "threw"]
          /\ UNCHANGED <<videos, fetchState, dubCalls, resp>>
     ELSE /\ videos' = videos (+) SetToBag({insertArg[r]})
          /\ resp' = [resp EXCEPT ![r] = SuccessResponse(env, r)]
          /\ pc' = [pc EXCEPT ![r] = "done"]
          /\ IF IsCapProduction(env)
             THEN /\ dubCalls' = dubCalls (+) SetToBag({DubRequest(env, id[r])})
                  /\ fetchState' = [fetchState EXCEPT ![r] = "pending"]
             ELSE UNCHANGED <<fetchState, dubCalls>>
  /\ UNCHANGED <<env, req, jar, authCalls, user, id, insertArg, nextId, console>>

\* variant: db.insert() is not awaited, so its rejection is not seen here
GET_AfterInsert_Unawaited(r, outcome) ==
  /\ pc[r] = "awaitInsert"
  /\ videos' = IF outcome = "error" THEN videos
               ELSE videos (+) SetToBag({insertArg[r]})
  /\ IF IsCapProduction(env)
     THEN /\ dubCalls' = dubCalls (+) SetToBag({DubRequest(env, id[r])})
          /\ fetchState' = [fetchState EXCEPT ![r] = "pending"]
          /\ pc' = [pc EXCEPT ![r] = "awaitFetch"]
          /\ UNCHANGED resp
     ELSE /\ resp' = [resp EXCEPT ![r] = SuccessResponse(env, r)]
          /\ pc' = [pc EXCEPT ![r] = "done"]
          /\ UNCHANGED <<fetchState, dubCalls>>
  /\ UNCHANGED <<env, req, jar, authCalls, user, id, insertArg, nextId, console>>

\* GET, from the settling of db.insert() to the call of fetch() or the response
GET_AfterInsert(r, outcome) ==
  /\ pc[r] = "awaitInsert"
  /\ IF outcome = "error"
     THEN \* the rejection is not caught: the handler throws
          /\ pc' = [pc EXCEPT ![r] = "threw"]
          /\ UNCHANGED <<videos, fetchState, dubCalls, resp>>
     ELSE /\ videos' = videos (+) SetToBag({insertArg[r]})
          /\ IF IsCapProduction(env)
             THEN /\ dubCalls' = dubCalls (+) SetToBag({DubRequest(env, id[r])})
                  /\ fetchState' = [fetchState EXCEPT ![r] = "pending"]
                  /\ pc' = [pc EXCEPT ![r] = "awaitFetch"]
                  /\ UNCHANGED resp
             ELSE /\ resp' = [resp EXCEPT ![r] = SuccessResponse(env, r)]
                  /\ pc' = [pc EXCEPT ![r] = "done"]
                  /\ UNCHANGED <<fetchState, dubCalls>>
  /\ UNCHANGED <<env, req, jar, authCalls, user, id, insertArg, nextId, console>>

\* the short-link service answers, or the connection fails
DubSettles(r, outcome) ==
  /\ fetchState[r] = "pending"
  /\ fetchState' = [fetchState EXCEPT ![r] = outcome]
  /\ UNCHANGED <<env, req, pc, jar, authCalls, user, id, insertArg, videos,
                 nextId, dubCalls, console, resp>>

\* the .then/.then/.catch chain on the settled fetch
ChainLog(outcome) ==
  IF outcome = "json" THEN [log |-> "response"] ELSE [error |-> outcome]

\* variant: the chain has no .catch, so a rejection leaves the handler
GET_AfterFetch_NoCatch(r) ==
  /\ pc[r] = "awaitFetch"
  /\ fetchState[r] \in FetchOutcomes
  /\ IF fetchState[r] = "json"
     THEN /\ console' = [console EXCEPT ![r] = Append(@, ChainLog(fetchState[r]))]
          /\ resp' = [resp EXCEPT ![r] = SuccessResponse(env, r)]
          /\ pc' = [pc EXCEPT ![r] = "done"]
     ELSE /\ pc' = [pc EXCEPT ![r] = "threw"]
          /\ UNCHANGED <<console, resp>>
  /\ UNCHANGED <<env, req, jar, authCalls, user, id, insertArg, videos,
                 nextId, fetchState, dubCalls>>

\* GET, from the settling of the awaited promise chain to the response
GET_AfterFetch(r) ==
  /\ pc[r] = "awaitFetch"
  /\ fetchState[r] \in FetchOutcomes
  /\ console' = [console EXCEPT ![r] = Append(@, ChainLog(fetchState[r]))]
  /\ resp' = [resp EXCEPT ![r] = SuccessResponse(env, r)]
  /\ pc' = [pc EXCEPT ![r] = "done"]
  /\ UNCHANGED <<env, req, jar, authCalls, user, id, insertArg, videos,
                 nextId, fetchState, dubCalls>>

(* --------------------------- specifications ---------------------------- *)

\* one request, every header, origin and environment
Next ==
  \/ \E h \in AuthHeaders, p \in OriginParams, o \in RequestOrigins :
        OPTIONS(1, h, p, o)
  \/ \E h \in AuthHeaders, p \in OriginParams, o \in RequestOrigins :
        GET_Start(1, h, p, o)
  \/ \E u \in Users \cup {NoUser}, d \in Dates : GET_AfterUser(1, u, d)
  \/ \E out \in InsertOutcomes : GET_AfterInsert(1, out)
  \/ \E out \in FetchOutcomes : DubSettles(1, out)
  \/ GET_AfterFetch(1)

Spec == Init /\ [][Next]_vars

\* NumRequests requests interleaved at their awaits
ConcNext ==
  \E r \in Slots :
    \/ \E p \in ConcOriginParams, o \in ConcRequestOrigins :
          OPTIONS(r, NoHeader, p, o)
    \/ \E h \in ConcAuthHeaders, p \in ConcOriginParams, o \in ConcRequestOrigins :
          GET_Start(r, h, p, o)
    \/ \E u \in Users \cup {NoUser}, d \in ConcDates : GET_AfterUser(r, u, d)
    \/ \E out \in InsertOutcomes : GET_AfterInsert(r, out)
    \/ \E out \in ConcFetchOutcomes : DubSettles(r, out)
    \/ GET_AfterFetch(r)

ConcSpec == ConcInit /\ [][ConcNext]_vars

TypeOK ==
  /\ env \in Envs
  /\ \A r \in Slots :
       /\ pc[r] \in {"idle", "awaitUser", "awaitInsert", "awaitFetch", "done", "threw"}
       /\ fetchState[r] \in {"none", "pending"} \cup FetchOutcomes
       /\ Cardinality(jar[r]) <= 1

(* ------------------------------ properties ----------------------------- *)

Gets == { r \in Slots : req[r].method = "GET" }
\* the requests whose insert has succeeded
Inserted == { r \in Gets : pc[r] \in {"awaitFetch", "done"} /\ user[r] # NoUser }
Responded == { r \in Slots : resp[r] # NoResp }

AllowSet ==
  { env.NEXT_PUBLIC_URL, "http://localhost:3001", "tauri://localhost",
    "http://tauri.localhost", "https://tauri.localhost" }

\* C1: a GET for which no user resolves is answered 401 with the body
\* {error: true}; it inserts no row and posts no short link.
C1_NoSessionNoRecord ==
  \A r \in Gets :
    (pc[r] \notin {"idle", "awaitUser"} /\ user[r] = NoUser) =>
      /\ pc[r] = "done"
      /\ resp[r].status = 401
      /\ resp[r].body = [error |-> TRUE]
      /\ videos = EmptyBag
      /\ dubCalls = EmptyBag
      /\ fetchState[r] = "none"

C1_Witness ==
  \E r \in Gets : /\ resp[r].status = 401
                  /\ jar[r] # {}
                  /\ IsCapProduction(env)
                  /\ Truthy(req[r].originParam)

\* C2: once the insert of an authenticated GET has succeeded there is exactly
\* one row, its ownerId is the resolved user's id, and the 200 body repeats the
\* row's id, ownerId, awsRegion and awsBucket.
C2_OneRecordMatchesResponse ==
  \A r \in Inserted :
    /\ BagCardinality(videos) = 1
    /\ \A row \in BagToSet(videos) :
         /\ row.ownerId = user[r].userId
         /\ resp[r].status = 200 =>
              /\ resp[r].body.id = row.id
              /\ resp[r].body.user_id = row.ownerId
              /\ resp[r].body.aws_region = row.awsRegion
              /\ resp[r].body.aws_bucket = row.awsBucket

C2_Witness ==
  \E r \in Inserted : /\ resp[r].status = 200
                      /\ resp[r].body.aws_region = "us-east-1"
                      /\ resp[r].body.user_id = "u2"
                      /\ BagCardinality(videos) = 1

C5_AllowOriginResolution ==
  \A r \in Responded :
    LET p == req[r].originParam
        o == req[r].origin
        v == resp[r].headers.AccessControlAllowOrigin
    IN /\ v = IF p \notin {AbsentParam, ""} /\ p \in AllowSet THEN p
              ELSE IF o \in AllowSet THEN o
              ELSE "null"
       /\ v \in (AllowSet \ {Undefined}) \cup {"null"}

C5_Witness ==
  \E r \in Responded :
    /\ req[r].originParam = "tauri://localhost"
    /\ req[r].origin = "http://localhost:3001"
    /\ resp[r].headers.AccessControlAllowOrigin = "tauri://localhost"

\* C6: the preflight, 401 and 200 paths give the same CORS headers for the
\* same origin parameter and request origin, and every response carries the
\* three fixed Allow-Credentials, Allow-Methods and Allow-Headers values.
C6_SameCorsOnEveryPath ==
  \A r \in Responded :
    LET p == req[r].originParam
        o == req[r].origin
    IN /\ resp[r].headers = OptionsHeaders(env, p, o)
       /\ resp[r].headers = UnauthorizedHeaders(env, p, o)
       /\ resp[r].headers = SuccessHeaders(env, p, o)
       /\ resp[r].headers.AccessControlAllowCredentials = "true"
       /\ resp[r].headers.AccessControlAllowMethods = "GET, OPTIONS"
       /\ resp[r].headers.AccessControlAllowHeaders =
            "Authorization, sentry-trace, baggage"

C6_Witness ==
  \E r \in Responded :
    /\ resp[r].status = 401
    /\ req[r].originParam = "https://evil.example"
    /\ resp[r].headers.AccessControlAllowOrigin = "http://localhost:3001"

\* C7: OPTIONS answers 200 with an empty body whatever the headers, and
\* writes no cookie, resolves no user, inserts no row and posts no short link.
C7_OptionsHasNoEffect ==
  \A r \in Slots :
    req[r].method = "OPTIONS" =>
      /\ resp[r].status = 200
      /\ resp[r].body = EmptyBody
      /\ jar[r] = {}
      /\ authCalls[r] = 0
      /\ user[r] = NoUser
      /\ videos = EmptyBag
      /\ dubCalls = EmptyBag
      /\ fetchState[r] = "none"
      /\ console[r] = <<>>

C7_Witness ==
  \E r \in Slots :
    /\ req[r].method = "OPTIONS"
    /\ req[r].authorization = Hdr(Str_Bearer \o <<SP>> \o Str_abc)
    /\ resp[r].status = 200

\* the non-empty space-delimited words of a header value
Words(s) == SelectSeq(Split(s), LAMBDA f : f # <<>>)

\* the header uses the Bearer scheme and carries a token after it
BearerToken(h) ==
  h.present /\ Len(Words(h.value)) >= 2 /\ Words(h.value)[1] = Str_Bearer

\* the texts between the first space of s and the next space or the end
SecondFields(s) ==
  { SubSeq(s, x[1] + 1, x[2]) :
      x \in { y \in (1..Len(s)) \X (1..Len(s)) :
                /\ y[1] <= y[2]
                /\ s[y[1]] = SP
                /\ \A k \in 1..(y[1] - 1) : s[k] # SP
                /\ \A k \in (y[1] + 1)..y[2] : s[k] # SP
                /\ (y[2] = Len(s) \/ s[y[2] + 1] = SP) } }

\* C8 (as stated): the session cookie is written, with the token as value,
\* exactly when the Authorization header carries a token after the Bearer
\* scheme word; otherwise no cookie is written.
C8_CookieOnlyForBearer ==
  \A r \in Gets :
    LET h == req[r].authorization
    IN jar[r] = IF BearerToken(h)
                THEN {[ name |-> "next-auth.session-token",
                        value |-> Words(h.value)[2], path |-> "/",
                        sameSite |-> "none", secure |-> TRUE, httpOnly |-> TRUE ]}
                ELSE {}

\* C8 (amended): the session cookie is written exactly when the text between
\* the first space of the Authorization header and the next space (or the end)
\* is not empty, whatever the scheme word, with that text as value and path /,
\* SameSite=None, Secure, HttpOnly; it is written before the user is resolved,
\* so also on requests that end in 401.
C8_CookieFromSecondField ==
  \A r \in Gets :
    LET h == req[r].authorization
    IN jar[r] = IF h.present
                THEN { [ name |-> "next-auth.session-token", value |-> v,
                         path |-> "/", sameSite |-> "none", secure |-> TRUE,
                         httpOnly |-> TRUE ] :
                       v \in SecondFields(h.value) \ {<<>>} }
                ELSE {}

C8_Witness ==
  \E r \in Gets :
    /\ resp[r].status = 401
    /\ req[r].authorization = Hdr(Str_Basic \o <<SP>> \o Str_abc)
    /\ \E c \in jar[r] : c.value = Str_abc

\* C9: when the insert fails the handler throws: the request gets neither a
\* 200 nor a 401 response and posts no short link; a short link is only ever
\* posted for an id whose row has been inserted, and 401 is the only error
\* response.
C9_InsertFailurePropagates ==
  /\ \A r \in Slots :
       /\ pc[r] = "threw" =>
            /\ resp[r] = NoResp
            /\ fetchState[r] = "none"
            /\ dubCalls = EmptyBag
            /\ videos = EmptyBag
            /\ user[r] # NoUser
       /\ resp[r].status \in {0, 200, 401}
  /\ \A call \in BagToSet(dubCalls) :
       \E row \in BagToSet(videos) : row.id = call.key

C9_Witness ==
  \E r \in Gets : pc[r] = "threw" /\ IsCapProduction(env) /\ jar[r] # {}

\* C10: with requests interleaved, there is one row per request whose insert
\* succeeded, requests have distinct ids, each 200 response carries the id and
\* user of the row its own request inserted, and every response's
\* Allow-Origin is resolved from its own request.
C10_RequestsIndependent ==
  /\ BagCardinality(videos) = Cardinality(Inserted)
  /\ \A r1 \in Slots, r2 \in Slots :
       (r1 # r2 /\ id[r1] # NoId) => id[r1] # id[r2]
  /\ \A r \in Inserted :
       /\ CopiesIn(insertArg[r], videos) = 1
       /\ insertArg[r].id = id[r]
       /\ insertArg[r].ownerId = user[r].userId
       /\ resp[r].status = 200 =>
            /\ resp[r].body.id = id[r]
            /\ resp[r].body.user_id = user[r].userId
  /\ \A r \in Responded :
       resp[r].headers.AccessControlAllowOrigin =
         IF req[r].originParam = "tauri://localhost" THEN "tauri://localhost"
         ELSE req[r].origin
  /\ \A r \in Slots : resp[r].status = 200 /\ req[r].method = "GET" => r \in Inserted

C10_Witness ==
  \E r1 \in Inserted, r2 \in Inserted :
    /\ r1 # r2
    /\ id[r1] > id[r2]
    /\ user[r1] # user[r2]
    /\ resp[r1].status = 200 /\ resp[r2].status = 200
    /\ req[r1].originParam # req[r2].originParam
    /\ resp[r2].body.id = id[r2]
====
